---- MODULE Spec2Model ----
(***************************************************************************)
(* A model of MaxScale's monitor management routines                       *)
(* (server/core/monitor.c): the registry of monitors (allMonitors guarded  *)
(* by the spinlock monLock), the per-monitor lifecycle (monitorStart,      *)
(* monitorStop, monitor_free, each monitor guarded by its own spinlock),   *)
(* the network-timeout setter and the monitor event classifier.            *)
(*                                                                         *)
(* Threads run the routines one shared-memory step at a time; pc[t] is the *)
(* position of thread t inside the routine it executes.                    *)
(***************************************************************************)
EXTENDS Integers, Sequences, FiniteSets, TLC

(***************************************************************************)
(* Bounds of the model.                                                    *)
(***************************************************************************)
\* number of MONITOR structures malloc can hand out in one behaviour
MaxMonitors == 3
\* number of MONITOR_SERVERS records of one monitor
MaxServers == 2
\* number of status bits a server status word carries in the model
StatusBits == 6
\* largest timeout value a caller passes to monitorSetNetworkTimeout
MaxTimeout == 4
\* largest size of a destination buffer of mon_append_node_names
MaxLen == 23
\* number of bits of a size_t in the model
SizeBits == 8
\* number of successive successful mon_connect_to_db calls that are counted
MaxCalls == 3
\* largest number of tokens in a string given to mon_parse_event_string
MaxTokens == 2
\* largest size of the array given to mon_parse_event_string
MaxCount == 3
\* largest number of monitors allocated in the runs checked for progress
MaxLive == 2

Threads == {1, 2}
Monitors == 1..MaxMonitors
\* the names configuration gives to monitors; they differ only in case
Names == {"mon", "Mon"}
\* the SERVER entities of the proxy's server registry
Servers == {1, 2}

(***************************************************************************)
(* Program constants.                                                      *)
(***************************************************************************)
NULL == 0
MONITOR_STATE_ALLOC == "MONITOR_STATE_ALLOC"
MONITOR_STATE_RUNNING == "MONITOR_STATE_RUNNING"
MONITOR_STATE_STOPPING == "MONITOR_STATE_STOPPING"
MONITOR_STATE_STOPPED == "MONITOR_STATE_STOPPED"
MONITOR_STATE_FREED == "MONITOR_STATE_FREED"
DEFAULT_READ_TIMEOUT == 1
DEFAULT_WRITE_TIMEOUT == 2
DEFAULT_CONNECT_TIMEOUT == 3
MONITOR_INTERVAL == 10000

\* the handle a module's startMonitor returns on success
ModuleHandle == 1
\* a MYSQL handle with an established connection, and one without
ConnOpen == 1
ConnDead == 2

VARIABLES
    heap,        \* heap[m]: "unalloc", "live" or "freed" (malloc / free of MONITOR m)
    mon,         \* mon[m]: the fields of MONITOR m
    allMonitors, \* the registry list, head first
    monLock,     \* holder of the registry spinlock, NULL when free
    modRunning,  \* modRunning[m]: the module's monitor thread of m is running
    pc,          \* pc[t]: position of thread t
    tgt,         \* tgt[t]: the MONITOR* the thread operates on
    cur,         \* cur[t]: ptr of a registry traversal, as the rest of the list
    arg,         \* arg[t]: the server argument of the call
    res,         \* res[t]: the value the call computed
    pre,         \* pre[t]: the state the call found under the monitor's lock, or the name it looks for
    allocOrder,  \* the registered monitors in the order monitor_alloc registered them
    cfg,         \* the timeout-setter scenario: the last call and its result
    cls,         \* the classifier scenario: a record's statuses and the event
    srv,         \* srv[s]: the status word of SERVER s
    nl,          \* the node-list scenario: a call of mon_append_node_names
    net,         \* the connection scenario: the last mon_connect_to_db call
    perm,        \* the permission scenario: a call of check_monitor_permissions
    evt,         \* the event scenario: classifications and launched scripts
    prs          \* the parser scenario: a call of mon_parse_event_string

scen == <<srv, nl, net, perm, evt, prs>>
aux == <<cfg, cls, scen>>
lifeVars == <<heap, mon, allMonitors, monLock, modRunning, pc, tgt, cur, arg, res, pre, allocOrder>>
vars == <<lifeVars, aux>>

(***************************************************************************)
(* Memory malloc has not initialised: no field holds a meaningful value.   *)
(***************************************************************************)
JunkServer ==
    [server |-> -1, con |-> -1, mon_err_count |-> -1, log_version_err |-> FALSE,
     mon_prev_status |-> -2, pending_status |-> -1]

JunkMonitor ==
    [state |-> "?", name |-> "?", handle |-> -1, databases |-> <<JunkServer>>,
     user |-> "?", password |-> "?", read_timeout |-> -1, write_timeout |-> -1,
     connect_timeout |-> -1, interval |-> -1, parameters |-> <<"?">>, lock |-> -1]

\* the fields as monitor_alloc sets them
NewMonitor(name) ==
    [state |-> MONITOR_STATE_ALLOC, name |-> name, handle |-> NULL,
     databases |-> <<>>, user |-> "", password |-> "",
     read_timeout |-> DEFAULT_READ_TIMEOUT, write_timeout |-> DEFAULT_WRITE_TIMEOUT,
     connect_timeout |-> DEFAULT_CONNECT_TIMEOUT, interval |-> MONITOR_INTERVAL,
     parameters |-> <<>>, lock |-> NULL]

\* the record with the previous status already set
NewServerSeen(server) ==
    [server |-> server, con |-> NULL, mon_err_count |-> 0, log_version_err |-> TRUE,
     mon_prev_status |-> 0, pending_status |-> 0]

\* the record monitorAddServer creates
NewServer(server) ==
    [server |-> server, con |-> NULL, mon_err_count |-> 0, log_version_err |-> TRUE,
     mon_prev_status |-> -1, pending_status |-> 0]

InList(list, m) == \E i \in 1..Len(list) : list[i] = m

\* a registration at the tail of the list instead of its head
LinkTail(list, m) == list \o <<m>>

\* mon->next = allMonitors; allMonitors = mon
LinkHead(list, m) == <<m>> \o list

\* the unlink of monitor_free: the head, or the first ptr with ptr->next == mon
RECURSIVE UnlinkAfter(_, _)
UnlinkAfter(list, m) ==
    IF Len(list) < 2 THEN list
    ELSE IF list[2] = m THEN <<list[1]>> \o SubSeq(list, 3, Len(list))
    ELSE <<list[1]>> \o UnlinkAfter(Tail(list), m)

\* an unlink that handles only the head of the list
UnlinkHeadOnly(list, m) ==
    IF list # <<>> /\ Head(list) = m THEN Tail(list) ELSE list

Unlink(list, m) ==
    IF list # <<>> /\ Head(list) = m THEN Tail(list) ELSE UnlinkAfter(list, m)

\* a comparison that ignores case: !strcasecmp(a, b)
Lower(a) == IF a = "Mon" THEN "mon" ELSE IF a = "MASTER_UP" THEN "master_up" ELSE a
StrCaseEq(a, b) == Lower(a) = Lower(b)

\* !strcmp(a, b)
StrEq(a, b) == a = b

\* a scan that does not stop at the first match and returns the last one
RECURSIVE monitor_find_last(_, _, _)
monitor_find_last(list, fields, name) ==
    IF list = <<>> THEN NULL
    ELSE IF monitor_find_last(Tail(list), fields, name) # NULL
         THEN monitor_find_last(Tail(list), fields, name)
    ELSE IF fields[Head(list)].name = name THEN Head(list)
    ELSE NULL

\* the scan of monitor_find: the first monitor of the list with that name, or NULL
RECURSIVE monitor_find_scan(_, _, _)
monitor_find_scan(list, fields, name) ==
    IF list = <<>> THEN NULL
    ELSE IF StrEq(fields[Head(list)].name, name) THEN Head(list)
    ELSE monitor_find_scan(Tail(list), fields, name)

\* a test that stops every monitor that is not stopped already
StopUnlessStopped(state) == state # MONITOR_STATE_STOPPED

\* the test of monitorStop: only stop the monitor if it is running
StopNeeded(state) == state = MONITOR_STATE_RUNNING

\* the loop of monitorStop: mysql_close(db->con); db->con = NULL for every record
CloseAll(dbs) == [i \in 1..Len(dbs) |-> [dbs[i] EXCEPT !.con = NULL]]

\* the state monitorStart leaves, given the handle startMonitor returned
StartState(state, handle) == IF handle # NULL THEN MONITOR_STATE_RUNNING ELSE state

\* malloc: the next MONITOR structure
FreshMonitor == CHOOSE m \in Monitors : heap[m] = "unalloc" /\ \A k \in Monitors : heap[k] = "unalloc" => m <= k

(***************************************************************************)
(* mon_connect_to_db: ping says whether mysql_ping succeeds on an open     *)
(* connection, init whether mysql_init returns a handle, connected whether *)
(* mxs_mysql_real_connect succeeds, slow whether the attempt took at least *)
(* connect_timeout seconds.                                                *)
(***************************************************************************)
\* closed says whether mysql_close was called on the handle the record held,
\* handshake whether mxs_mysql_real_connect was called.
mon_connect_to_db_reconnect(con, ping, init, connected, slow) ==
    IF ~init THEN [con |-> NULL, rval |-> "MONITOR_CONN_REFUSED",
                   closed |-> con # NULL, handshake |-> FALSE]
    ELSE IF connected THEN [con |-> ConnOpen, rval |-> "MONITOR_CONN_OK",
                            closed |-> con # NULL, handshake |-> TRUE]
    ELSE [con |-> ConnDead,
          rval |-> IF slow THEN "MONITOR_CONN_TIMEOUT" ELSE "MONITOR_CONN_REFUSED",
          closed |-> con # NULL, handshake |-> TRUE]

\* a connect that closes the handle of a failed attempt and clears the record
mon_connect_to_db_clear(con, ping, init, connected, slow) ==
    IF con = ConnOpen /\ ping
    THEN [con |-> con, rval |-> "MONITOR_CONN_OK", closed |-> FALSE, handshake |-> FALSE]
    ELSE IF ~init THEN [con |-> NULL, rval |-> "MONITOR_CONN_REFUSED",
                        closed |-> con # NULL, handshake |-> FALSE]
    ELSE IF connected THEN [con |-> ConnOpen, rval |-> "MONITOR_CONN_OK",
                            closed |-> con # NULL, handshake |-> TRUE]
    ELSE [con |-> NULL,
          rval |-> IF slow THEN "MONITOR_CONN_TIMEOUT" ELSE "MONITOR_CONN_REFUSED",
          closed |-> con # NULL, handshake |-> TRUE]

mon_connect_to_db(con, ping, init, connected, slow) ==
    IF con = ConnOpen /\ ping
    THEN [con |-> con, rval |-> "MONITOR_CONN_OK", closed |-> FALSE, handshake |-> FALSE]
    ELSE IF ~init THEN [con |-> NULL, rval |-> "MONITOR_CONN_REFUSED",
                        closed |-> con # NULL, handshake |-> FALSE]
    ELSE IF connected THEN [con |-> ConnOpen, rval |-> "MONITOR_CONN_OK",
                            closed |-> con # NULL, handshake |-> TRUE]
    ELSE [con |-> ConnDead,
          rval |-> IF slow THEN "MONITOR_CONN_TIMEOUT" ELSE "MONITOR_CONN_REFUSED",
          closed |-> con # NULL, handshake |-> TRUE]

(***************************************************************************)
(* What a caller may do with a MONITOR pointer.  A routine that takes a    *)
(* MONITOR* is called with a pointer monitor_alloc has returned, before    *)
(* monitor_free is called on it; monitor_free is called once, when no call *)
(* that was handed the pointer is still running.  The traversals of the    *)
(* registry (monitorStartAll, monitorStopAll, monitor_find) take no        *)
(* pointer and may run at any time.                                        *)
(***************************************************************************)
FreePcs == {"free_state", "free_lock", "free_unlink", "free_mem"}
Freeing(m) == \E t \in Threads : pc[t] \in FreePcs /\ tgt[t] = m
Usable(m) == heap[m] = "live" /\ InList(allMonitors, m) /\ ~Freeing(m)
InUse(m) == \E t \in Threads : pc[t] # "idle" /\ tgt[t] = m /\ monLock # t
AddingServers == Cardinality({t \in Threads : pc[t] \in {"addsrv_lock", "addsrv_append"}})

\* the call returns: the thread's locals go away
Return(t) ==
    /\ pc' = [pc EXCEPT ![t] = "idle"]
    /\ tgt' = [tgt EXCEPT ![t] = NULL]
    /\ cur' = [cur EXCEPT ![t] = <<>>]
    /\ arg' = [arg EXCEPT ![t] = NULL]
    /\ res' = [res EXCEPT ![t] = NULL]
    /\ pre' = [pre EXCEPT ![t] = ""]

Goto(t, label) == pc' = [pc EXCEPT ![t] = label]

(***************************************************************************)
(* monitor_alloc                                                           *)
(***************************************************************************)
monitor_alloc_load(t, name, loaded) ==
    /\ pc[t] = "idle"
    /\ \E m \in Monitors : heap[m] = "unalloc"
    /\ IF loaded
       THEN /\ heap' = [heap EXCEPT ![FreshMonitor] = "live"]
            /\ mon' = [mon EXCEPT ![FreshMonitor] = NewMonitor(name)]
            /\ tgt' = [tgt EXCEPT ![t] = FreshMonitor]
            /\ Goto(t, "alloc_lock")
            /\ UNCHANGED res
       ELSE /\ res' = [res EXCEPT ![t] = NULL]
            /\ Goto(t, "alloc_fail")
            /\ UNCHANGED <<heap, mon, tgt>>
    /\ UNCHANGED <<allMonitors, allocOrder, monLock, modRunning, cur, arg, pre, aux>>

monitor_alloc_fail(t) ==
    /\ pc[t] = "alloc_fail"
    /\ Return(t)
    /\ UNCHANGED <<heap, mon, allMonitors, allocOrder, monLock, modRunning, aux>>

monitor_alloc_lock(t) ==
    /\ pc[t] = "alloc_lock"
    /\ monLock = NULL
    /\ monLock' = t
    /\ Goto(t, "alloc_link")
    /\ UNCHANGED <<heap, mon, allMonitors, allocOrder, modRunning, tgt, cur, arg, res, pre, aux>>

monitor_alloc_link(t) ==
    /\ pc[t] = "alloc_link"
    /\ allMonitors' = LinkHead(allMonitors, tgt[t])
    /\ allocOrder' = Append(allocOrder, tgt[t])
    /\ monLock' = NULL
    /\ Return(t)
    /\ UNCHANGED <<heap, mon, modRunning, aux>>

(***************************************************************************)
(* monitor_free                                                            *)
(***************************************************************************)
monitor_free_stop(t, m) ==
    /\ pc[t] = "idle"
    /\ Usable(m)
    /\ ~InUse(m)
    /\ modRunning' = [modRunning EXCEPT ![m] = FALSE]
    /\ tgt' = [tgt EXCEPT ![t] = m]
    /\ Goto(t, "free_state")
    /\ UNCHANGED <<heap, mon, allMonitors, allocOrder, monLock, cur, arg, res, pre, aux>>

monitor_free_state(t) ==
    /\ pc[t] = "free_state"
    /\ mon' = [mon EXCEPT ![tgt[t]].state = MONITOR_STATE_FREED]
    /\ Goto(t, "free_lock")
    /\ UNCHANGED <<heap, allMonitors, allocOrder, monLock, modRunning, tgt, cur, arg, res, pre, aux>>

monitor_free_lock(t) ==
    /\ pc[t] = "free_lock"
    /\ monLock = NULL
    /\ monLock' = t
    /\ Goto(t, "free_unlink")
    /\ UNCHANGED <<heap, mon, allMonitors, allocOrder, modRunning, tgt, cur, arg, res, pre, aux>>

monitor_free_unlink(t) ==
    /\ pc[t] = "free_unlink"
    /\ allMonitors' = Unlink(allMonitors, tgt[t])
    /\ allocOrder' = SelectSeq(allocOrder, LAMBDA x : x # tgt[t])
    /\ monLock' = NULL
    /\ Goto(t, "free_mem")
    /\ UNCHANGED <<heap, mon, modRunning, tgt, cur, arg, res, pre, aux>>

\* free_config_parameter, monitor_servers_free, free(mon->name), free(mon)
monitor_free_mem(t) ==
    /\ pc[t] = "free_mem"
    /\ heap' = [heap EXCEPT ![tgt[t]] = "freed"]
    /\ mon' = [mon EXCEPT ![tgt[t]] = JunkMonitor]
    /\ modRunning' = [modRunning EXCEPT ![tgt[t]] = FALSE]
    /\ Return(t)
    /\ UNCHANGED <<allMonitors, allocOrder, monLock, aux>>

(***************************************************************************)
(* monitorStart and monitorStartAll                                        *)
(***************************************************************************)
monitorStart_call(t, m) ==
    /\ pc[t] = "idle"
    /\ Usable(m)
    /\ tgt' = [tgt EXCEPT ![t] = m]
    /\ Goto(t, "start_lock")
    /\ UNCHANGED <<heap, mon, allMonitors, allocOrder, monLock, modRunning, cur, arg, res, pre, aux>>

monitorStart_lock(t) ==
    /\ pc[t] = "start_lock"
    /\ mon[tgt[t]].lock = NULL
    /\ mon' = [mon EXCEPT ![tgt[t]].lock = t]
    /\ pre' = [pre EXCEPT ![t] = mon[tgt[t]].state]
    /\ Goto(t, "start_module")
    /\ UNCHANGED <<heap, allMonitors, allocOrder, monLock, modRunning, tgt, cur, arg, res, aux>>

\* handle is what the module's startMonitor returns
monitorStart_module(t, handle) ==
    /\ pc[t] = "start_module"
    /\ mon' = [mon EXCEPT ![tgt[t]].handle = handle,
                          ![tgt[t]].state = StartState(mon[tgt[t]].state, handle)]
    /\ modRunning' = [modRunning EXCEPT ![tgt[t]] = IF handle # NULL THEN TRUE ELSE @]
    /\ res' = [res EXCEPT ![t] = handle]
    /\ Goto(t, "start_unlock")
    /\ UNCHANGED <<heap, allMonitors, allocOrder, monLock, tgt, cur, arg, pre, aux>>

\* a traversal that gives up at the first monitor whose start failed
monitorStart_unlock_abort(t) ==
    /\ pc[t] = "start_unlock"
    /\ mon' = [mon EXCEPT ![tgt[t]].lock = NULL]
    /\ IF monLock = t
       THEN /\ Goto(t, "startall_loop")
            /\ cur' = [cur EXCEPT ![t] = IF res[t] = NULL THEN <<>> ELSE Tail(@)]
            /\ tgt' = [tgt EXCEPT ![t] = NULL]
            /\ res' = [res EXCEPT ![t] = NULL]
            /\ pre' = [pre EXCEPT ![t] = ""]
            /\ UNCHANGED arg
       ELSE Return(t)
    /\ UNCHANGED <<heap, allMonitors, allocOrder, monLock, modRunning, aux>>

monitorStart_unlock(t) ==
    /\ pc[t] = "start_unlock"
    /\ mon' = [mon EXCEPT ![tgt[t]].lock = NULL]
    /\ IF monLock = t
       THEN /\ Goto(t, "startall_loop")
            /\ cur' = [cur EXCEPT ![t] = Tail(@)]
            /\ tgt' = [tgt EXCEPT ![t] = NULL]
            /\ res' = [res EXCEPT ![t] = NULL]
            /\ pre' = [pre EXCEPT ![t] = ""]
            /\ UNCHANGED arg
       ELSE Return(t)
    /\ UNCHANGED <<heap, allMonitors, allocOrder, monLock, modRunning, aux>>

monitorStartAll_lock(t) ==
    /\ pc[t] = "idle"
    /\ monLock = NULL
    /\ monLock' = t
    /\ cur' = [cur EXCEPT ![t] = allMonitors]
    /\ Goto(t, "startall_loop")
    /\ UNCHANGED <<heap, mon, allMonitors, allocOrder, modRunning, tgt, arg, res, pre, aux>>

monitorStartAll_next(t) ==
    /\ pc[t] = "startall_loop"
    /\ cur[t] # <<>>
    /\ tgt' = [tgt EXCEPT ![t] = Head(cur[t])]
    /\ Goto(t, "start_lock")
    /\ UNCHANGED <<heap, mon, allMonitors, allocOrder, monLock, modRunning, cur, arg, res, pre, aux>>

monitorStartAll_unlock(t) ==
    /\ pc[t] = "startall_loop"
    /\ cur[t] = <<>>
    /\ monLock' = NULL
    /\ Return(t)
    /\ UNCHANGED <<heap, mon, allMonitors, allocOrder, modRunning, aux>>

(***************************************************************************)
(* monitorStop and monitorStopAll                                          *)
(***************************************************************************)
monitorStop_call(t, m) ==
    /\ pc[t] = "idle"
    /\ Usable(m)
    /\ tgt' = [tgt EXCEPT ![t] = m]
    /\ Goto(t, "stop_lock")
    /\ UNCHANGED <<heap, mon, allMonitors, allocOrder, monLock, modRunning, cur, arg, res, pre, aux>>

monitorStop_lock(t) ==
    /\ pc[t] = "stop_lock"
    /\ mon[tgt[t]].lock = NULL
    /\ mon' = [mon EXCEPT ![tgt[t]].lock = t]
    /\ Goto(t, "stop_check")
    /\ UNCHANGED <<heap, allMonitors, allocOrder, monLock, modRunning, tgt, cur, arg, res, pre, aux>>

monitorStop_check(t) ==
    /\ pc[t] = "stop_check"
    /\ pre' = [pre EXCEPT ![t] = mon[tgt[t]].state]
    /\ IF StopNeeded(mon[tgt[t]].state)
       THEN /\ mon' = [mon EXCEPT ![tgt[t]].state = MONITOR_STATE_STOPPING]
            /\ Goto(t, "stop_module")
       ELSE /\ Goto(t, "stop_unlock")
            /\ UNCHANGED mon
    /\ UNCHANGED <<heap, allMonitors, allocOrder, monLock, modRunning, tgt, cur, arg, res, aux>>

\* monitor->module->stopMonitor(monitor)
monitorStop_module(t) ==
    /\ pc[t] = "stop_module"
    /\ modRunning' = [modRunning EXCEPT ![tgt[t]] = FALSE]
    /\ Goto(t, "stop_stopped")
    /\ UNCHANGED <<heap, mon, allMonitors, allocOrder, monLock, tgt, cur, arg, res, pre, aux>>

monitorStop_stopped(t) ==
    /\ pc[t] = "stop_stopped"
    /\ mon' = [mon EXCEPT ![tgt[t]].state = MONITOR_STATE_STOPPED]
    /\ Goto(t, "stop_close")
    /\ UNCHANGED <<heap, allMonitors, allocOrder, monLock, modRunning, tgt, cur, arg, res, pre, aux>>

monitorStop_close(t) ==
    /\ pc[t] = "stop_close"
    /\ mon' = [mon EXCEPT ![tgt[t]].databases = CloseAll(@)]
    /\ Goto(t, "stop_unlock")
    /\ UNCHANGED <<heap, allMonitors, allocOrder, monLock, modRunning, tgt, cur, arg, res, pre, aux>>

\* a monitorStop whose early exit forgets the lock
monitorStop_unlock_leak(t) ==
    /\ pc[t] = "stop_unlock"
    /\ mon' = [mon EXCEPT ![tgt[t]].lock = IF pre[t] = MONITOR_STATE_RUNNING THEN NULL ELSE @]
    /\ IF monLock = t
       THEN /\ Goto(t, "stopall_loop")
            /\ cur' = [cur EXCEPT ![t] = Tail(@)]
            /\ tgt' = [tgt EXCEPT ![t] = NULL]
            /\ pre' = [pre EXCEPT ![t] = ""]
            /\ UNCHANGED <<arg, res>>
       ELSE Return(t)
    /\ UNCHANGED <<heap, allMonitors, allocOrder, monLock, modRunning, aux>>

monitorStop_unlock(t) ==
    /\ pc[t] = "stop_unlock"
    /\ mon' = [mon EXCEPT ![tgt[t]].lock = NULL]
    /\ IF monLock = t
       THEN /\ Goto(t, "stopall_loop")
            /\ cur' = [cur EXCEPT ![t] = Tail(@)]
            /\ tgt' = [tgt EXCEPT ![t] = NULL]
            /\ pre' = [pre EXCEPT ![t] = ""]
            /\ UNCHANGED <<arg, res>>
       ELSE Return(t)
    /\ UNCHANGED <<heap, allMonitors, allocOrder, monLock, modRunning, aux>>

monitorStopAll_lock(t) ==
    /\ pc[t] = "idle"
    /\ monLock = NULL
    /\ monLock' = t
    /\ cur' = [cur EXCEPT ![t] = allMonitors]
    /\ Goto(t, "stopall_loop")
    /\ UNCHANGED <<heap, mon, allMonitors, allocOrder, modRunning, tgt, arg, res, pre, aux>>

monitorStopAll_next(t) ==
    /\ pc[t] = "stopall_loop"
    /\ cur[t] # <<>>
    /\ tgt' = [tgt EXCEPT ![t] = Head(cur[t])]
    /\ Goto(t, "stop_lock")
    /\ UNCHANGED <<heap, mon, allMonitors, allocOrder, monLock, modRunning, cur, arg, res, pre, aux>>

monitorStopAll_unlock(t) ==
    /\ pc[t] = "stopall_loop"
    /\ cur[t] = <<>>
    /\ monLock' = NULL
    /\ Return(t)
    /\ UNCHANGED <<heap, mon, allMonitors, allocOrder, modRunning, aux>>

(***************************************************************************)
(* monitorAddServer                                                        *)
(***************************************************************************)
monitorAddServer_call(t, m, server) ==
    /\ pc[t] = "idle"
    /\ Usable(m)
    /\ Len(mon[m].databases) + AddingServers < MaxServers
    /\ tgt' = [tgt EXCEPT ![t] = m]
    /\ arg' = [arg EXCEPT ![t] = server]
    /\ Goto(t, "addsrv_lock")
    /\ UNCHANGED <<heap, mon, allMonitors, allocOrder, monLock, modRunning, cur, res, pre, aux>>

monitorAddServer_lock(t) ==
    /\ pc[t] = "addsrv_lock"
    /\ mon[tgt[t]].lock = NULL
    /\ mon' = [mon EXCEPT ![tgt[t]].lock = t]
    /\ Goto(t, "addsrv_append")
    /\ UNCHANGED <<heap, allMonitors, allocOrder, monLock, modRunning, tgt, cur, arg, res, pre, aux>>

monitorAddServer_append(t) ==
    /\ pc[t] = "addsrv_append"
    /\ mon' = [mon EXCEPT ![tgt[t]].databases = Append(@, NewServer(arg[t])),
                          ![tgt[t]].lock = NULL]
    /\ Return(t)
    /\ UNCHANGED <<heap, allMonitors, allocOrder, monLock, modRunning, aux>>

(***************************************************************************)
(* monitor_find                                                            *)
(***************************************************************************)
monitor_find_lock(t, name) ==
    /\ pc[t] = "idle"
    /\ monLock = NULL
    /\ monLock' = t
    /\ pre' = [pre EXCEPT ![t] = name]
    /\ Goto(t, "find_scan")
    /\ UNCHANGED <<heap, mon, allMonitors, allocOrder, modRunning, tgt, cur, arg, res, aux>>

monitor_find_loop(t) ==
    /\ pc[t] = "find_scan"
    /\ res' = [res EXCEPT ![t] = monitor_find_scan(allMonitors, mon, pre[t])]
    /\ Goto(t, "find_unlock")
    /\ UNCHANGED <<heap, mon, allMonitors, allocOrder, monLock, modRunning, tgt, cur, arg, pre, aux>>

monitor_find_unlock(t) ==
    /\ pc[t] = "find_unlock"
    /\ monLock' = NULL
    /\ Return(t)
    /\ UNCHANGED <<heap, mon, allMonitors, allocOrder, modRunning, aux>>

(***************************************************************************)
(* The monitor thread of the module, while it runs, calls                  *)
(* mon_connect_to_db on the records of its monitor.                        *)
(***************************************************************************)
module_poll(m, i, ping, init, connected, slow) ==
    /\ heap[m] = "live"
    /\ modRunning[m]
    /\ i \in 1..Len(mon[m].databases)
    /\ mon' = [mon EXCEPT ![m].databases[i].con =
                   mon_connect_to_db(@, ping, init, connected, slow).con]
    /\ UNCHANGED <<heap, allMonitors, allocOrder, monLock, modRunning, pc, tgt, cur, arg, res, pre, aux>>

(***************************************************************************)
(* The program after start-up: no monitor allocated, every thread idle.    *)
(***************************************************************************)
CfgIdle == [type |-> "", value |-> 0, rval |-> TRUE]
ClsIdle == [prev |-> -1, status |-> 0, event |-> ""]
NlIdle == [all |-> <<>>, servers |-> <<>>, dest |-> "", separator |-> "", len |-> 0, status |-> 0, mid |-> "", pc |-> "idle"]
NetIdle == [i |-> 0, before |-> NULL, ping |-> FALSE, init |-> FALSE, rval |-> "",
            closed |-> FALSE, handshake |-> FALSE,
            calls |-> [i \in 1..MaxServers |-> 0], handshakes |-> [i \in 1..MaxServers |-> 0]]
PermIdle == [m |-> NULL, ptr |-> 0, seen |-> <<>>, rval |-> FALSE, pc |-> "idle"]
EvtIdle == [pc |-> "idle", ptr |-> 0, script |-> {}, valid |-> FALSE, events |-> <<>>, launched |-> <<>>]

PrsIdle == [pc |-> "idle", tok |-> <<>>, count |-> 0, events |-> {}, rval |-> 0]

\* no scenario has started; every server's status word is 0
ScenIdle ==
    /\ srv = [s \in Servers |-> 0]
    /\ nl = NlIdle
    /\ net = NetIdle
    /\ perm = PermIdle
    /\ evt = EvtIdle
    /\ prs = PrsIdle

Init ==
    /\ heap = [m \in Monitors |-> "unalloc"]
    /\ mon = [m \in Monitors |-> JunkMonitor]
    /\ allMonitors = <<>>
    /\ allocOrder = <<>>
    /\ monLock = NULL
    /\ modRunning = [m \in Monitors |-> FALSE]
    /\ pc = [t \in Threads |-> "idle"]
    /\ tgt = [t \in Threads |-> NULL]
    /\ cur = [t \in Threads |-> <<>>]
    /\ arg = [t \in Threads |-> NULL]
    /\ res = [t \in Threads |-> NULL]
    /\ pre = [t \in Threads |-> ""]
    /\ cfg = CfgIdle
    /\ cls = ClsIdle
    /\ ScenIdle

\* monitor_alloc and monitor_find
RegistryNext ==
    \/ \E t \in Threads, name \in Names, loaded \in BOOLEAN : monitor_alloc_load(t, name, loaded)
    \/ \E t \in Threads : monitor_alloc_fail(t)
    \/ \E t \in Threads : monitor_alloc_lock(t)
    \/ \E t \in Threads : monitor_alloc_link(t)
    \/ \E t \in Threads, name \in Names : monitor_find_lock(t, name)
    \/ \E t \in Threads : monitor_find_loop(t)
    \/ \E t \in Threads : monitor_find_unlock(t)

\* monitor_free, monitorStartAll, monitorStopAll and the monitorStart and
\* monitorStop they call
LifeNext ==
    \/ \E t \in Threads, m \in Monitors : monitor_free_stop(t, m)
    \/ \E t \in Threads : monitor_free_state(t)
    \/ \E t \in Threads : monitor_free_lock(t)
    \/ \E t \in Threads : monitor_free_unlink(t)
    \/ \E t \in Threads : monitor_free_mem(t)
    \/ \E t \in Threads : monitorStart_lock(t)
    \/ \E t \in Threads, handle \in {NULL, ModuleHandle} : monitorStart_module(t, handle)
    \/ \E t \in Threads : monitorStart_unlock(t)
    \/ \E t \in Threads : monitorStartAll_lock(t)
    \/ \E t \in Threads : monitorStartAll_next(t)
    \/ \E t \in Threads : monitorStartAll_unlock(t)
    \/ \E t \in Threads : monitorStop_lock(t)
    \/ \E t \in Threads : monitorStop_check(t)
    \/ \E t \in Threads : monitorStop_module(t)
    \/ \E t \in Threads : monitorStop_stopped(t)
    \/ \E t \in Threads : monitorStop_close(t)
    \/ \E t \in Threads : monitorStop_unlock(t)
    \/ \E t \in Threads : monitorStopAll_lock(t)
    \/ \E t \in Threads : monitorStopAll_next(t)
    \/ \E t \in Threads : monitorStopAll_unlock(t)

\* monitorStart and monitorStop called with a MONITOR pointer
DirectNext ==
    \/ \E t \in Threads, m \in Monitors : monitorStart_call(t, m)
    \/ \E t \in Threads, m \in Monitors : monitorStop_call(t, m)

\* monitorAddServer and the module's monitor thread
ServerNext ==
    \/ \E t \in Threads, m \in Monitors, server \in Servers : monitorAddServer_call(t, m, server)
    \/ \E t \in Threads : monitorAddServer_lock(t)
    \/ \E t \in Threads : monitorAddServer_append(t)
    \/ \E m \in Monitors, i \in 1..MaxServers, ping, init, connected, slow \in BOOLEAN :
           module_poll(m, i, ping, init, connected, slow)

(***************************************************************************)
(* Spec: the registry.  Threads allocate, find, start, stop and free       *)
(* monitors, singly and through the traversals.                            *)
(***************************************************************************)
Next == RegistryNext \/ LifeNext

Spec == Init /\ [][Next]_vars

(***************************************************************************)
(* SpecPoll: one monitor, as monitor_alloc has registered it, gets servers *)
(* and is started, polled, stopped and freed.                              *)
(***************************************************************************)
InitPoll ==
    /\ heap = [m \in Monitors |-> IF m = 1 THEN "live" ELSE "unalloc"]
    /\ mon = [m \in Monitors |-> IF m = 1 THEN NewMonitor("mon") ELSE JunkMonitor]
    /\ allMonitors = <<1>>
    /\ allocOrder = <<1>>
    /\ monLock = NULL
    /\ modRunning = [m \in Monitors |-> FALSE]
    /\ pc = [t \in Threads |-> "idle"]
    /\ tgt = [t \in Threads |-> NULL]
    /\ cur = [t \in Threads |-> <<>>]
    /\ arg = [t \in Threads |-> NULL]
    /\ res = [t \in Threads |-> NULL]
    /\ pre = [t \in Threads |-> ""]
    /\ cfg = CfgIdle
    /\ cls = ClsIdle
    /\ ScenIdle

NextPoll == LifeNext \/ DirectNext \/ ServerNext

SpecPoll == InitPoll /\ [][NextPoll]_vars

(***************************************************************************)
(* monitorSetNetworkTimeout.  The value is the monitor as the call leaves  *)
(* it and the call's return value.                                         *)
(***************************************************************************)
TimeoutTypes == {"MONITOR_CONNECT_TIMEOUT", "MONITOR_READ_TIMEOUT", "MONITOR_WRITE_TIMEOUT"}
\* what a caller may pass as type: the three timeouts and an unsupported action type
CallerTypes == TimeoutTypes \cup {"UNSUPPORTED"}

\* a setter that takes 0 for a valid timeout: value >= 0
monitorSetNetworkTimeoutZero(m, type, value) ==
    IF value >= 0
    THEN CASE type = "MONITOR_CONNECT_TIMEOUT" ->
                  [mon |-> [m EXCEPT !.connect_timeout = value], rval |-> TRUE]
           [] type = "MONITOR_READ_TIMEOUT" ->
                  [mon |-> [m EXCEPT !.read_timeout = value], rval |-> TRUE]
           [] type = "MONITOR_WRITE_TIMEOUT" ->
                  [mon |-> [m EXCEPT !.write_timeout = value], rval |-> TRUE]
           [] OTHER -> [mon |-> m, rval |-> FALSE]
    ELSE [mon |-> m, rval |-> FALSE]

monitorSetNetworkTimeout(m, type, value) ==
    IF value > 0
    THEN CASE type = "MONITOR_CONNECT_TIMEOUT" ->
                  [mon |-> [m EXCEPT !.connect_timeout = value], rval |-> TRUE]
           [] type = "MONITOR_READ_TIMEOUT" ->
                  [mon |-> [m EXCEPT !.read_timeout = value], rval |-> TRUE]
           [] type = "MONITOR_WRITE_TIMEOUT" ->
                  [mon |-> [m EXCEPT !.write_timeout = value], rval |-> TRUE]
           [] OTHER -> [mon |-> m, rval |-> FALSE]
    ELSE [mon |-> m, rval |-> FALSE]

monitorSetNetworkTimeout_call(m, type, value) ==
    /\ Usable(m)
    /\ mon' = [mon EXCEPT ![m] = monitorSetNetworkTimeout(mon[m], type, value).mon]
    /\ cfg' = [type |-> type, value |-> value,
               rval |-> monitorSetNetworkTimeout(mon[m], type, value).rval]
    /\ UNCHANGED <<heap, allMonitors, allocOrder, monLock, modRunning, pc, tgt, cur, arg, res, pre, cls, scen>>

(***************************************************************************)
(* SpecTimeout: the timeouts of a registered monitor are set, with values  *)
(* from -1 to MaxTimeout and every type a caller may pass.                 *)
(***************************************************************************)
NextTimeout ==
    \E m \in Monitors, type \in CallerTypes, value \in -1..MaxTimeout :
        monitorSetNetworkTimeout_call(m, type, value)

SpecTimeout == InitPoll /\ [][NextTimeout]_vars

(***************************************************************************)
(* The server status bits (server.h) and the monitor events                *)
(* (def_monitor_event.h) that mon_get_event_type uses.                     *)
(***************************************************************************)
SERVER_RUNNING == 1
SERVER_MASTER == 2
SERVER_SLAVE == 4
SERVER_JOINED == 8
SERVER_NDB == 16

MonitorEvents ==
    {"UNDEFINED_MONITOR_EVENT",
     "MASTER_DOWN_EVENT", "MASTER_UP_EVENT", "SLAVE_DOWN_EVENT", "SLAVE_UP_EVENT",
     "SERVER_DOWN_EVENT", "SERVER_UP_EVENT", "SYNCED_DOWN_EVENT", "SYNCED_UP_EVENT",
     "NDB_DOWN_EVENT", "NDB_UP_EVENT",
     "LOST_MASTER_EVENT", "LOST_SLAVE_EVENT", "LOST_SYNCED_EVENT", "LOST_NDB_EVENT",
     "NEW_MASTER_EVENT", "NEW_SLAVE_EVENT", "NEW_SYNCED_EVENT", "NEW_NDB_EVENT"}

\* the status words of the model: StatusBits bits wide
StatusWords == 0..(2 ^ StatusBits - 1)

\* the conversion of an int to unsigned int, in a word of StatusBits bits
ToUnsigned(x) == x % (2 ^ StatusBits)

\* a & b on unsigned words
RECURSIVE BitAnd(_, _)
BitAnd(a, b) ==
    IF a = 0 \/ b = 0 THEN 0
    ELSE (a % 2) * (b % 2) + 2 * BitAnd(a \div 2, b \div 2)

\* a mask that also takes in the maintenance bit, 0x0020
EventMaskWithMaint ==
    SERVER_RUNNING + SERVER_MASTER + SERVER_SLAVE + SERVER_JOINED + SERVER_NDB + 32

\* SERVER_RUNNING | SERVER_MASTER | SERVER_SLAVE | SERVER_JOINED | SERVER_NDB
EventMask == SERVER_RUNNING + SERVER_MASTER + SERVER_SLAVE + SERVER_JOINED + SERVER_NDB

\* SERVER_MASTER | SERVER_SLAVE | SERVER_JOINED | SERVER_NDB
RoleMask == SERVER_MASTER + SERVER_SLAVE + SERVER_JOINED + SERVER_NDB

\* a categorisation that decides between loss and new by the roles of present
GeneralEventTypeByPresent(prev, present) ==
    IF BitAnd(prev, SERVER_RUNNING) = 0
    THEN IF BitAnd(present, SERVER_RUNNING) # 0 THEN "UP_EVENT" ELSE "UNSUPPORTED_EVENT"
    ELSE IF BitAnd(present, SERVER_RUNNING) = 0 THEN "DOWN_EVENT"
         ELSE IF BitAnd(present, RoleMask) # 0 THEN "LOSS_EVENT" ELSE "NEW_EVENT"

\* a categorisation that takes a server that stays down for one that went down
GeneralEventTypeStillDown(prev, present) ==
    IF BitAnd(prev, SERVER_RUNNING) = 0
    THEN IF BitAnd(present, SERVER_RUNNING) # 0 THEN "UP_EVENT" ELSE "DOWN_EVENT"
    ELSE IF BitAnd(present, SERVER_RUNNING) = 0 THEN "DOWN_EVENT"
         ELSE IF BitAnd(prev, RoleMask) # 0 THEN "LOSS_EVENT" ELSE "NEW_EVENT"

\* the general_event_type of a change from prev to present, both masked
GeneralEventType(prev, present) ==
    IF BitAnd(prev, SERVER_RUNNING) = 0
    THEN IF BitAnd(present, SERVER_RUNNING) # 0 THEN "UP_EVENT" ELSE "UNSUPPORTED_EVENT"
    ELSE IF BitAnd(present, SERVER_RUNNING) = 0 THEN "DOWN_EVENT"
         ELSE IF BitAnd(prev, RoleMask) # 0 THEN "LOSS_EVENT" ELSE "NEW_EVENT"

\* a classifier that looks for the slave bit before the master bit
mon_get_event_type_slave_first(mon_prev_status, status) ==
    LET prev == BitAnd(ToUnsigned(mon_prev_status), EventMask)
        present == BitAnd(ToUnsigned(status), EventMask)
        event_type == GeneralEventType(prev, present)
    IN  IF prev = present THEN "UNDEFINED_MONITOR_EVENT"
        ELSE CASE event_type = "UP_EVENT" ->
                      IF BitAnd(present, SERVER_SLAVE) # 0 THEN "SLAVE_UP_EVENT"
                      ELSE IF BitAnd(present, SERVER_MASTER) # 0 THEN "MASTER_UP_EVENT"
                      ELSE IF BitAnd(present, SERVER_JOINED) # 0 THEN "SYNCED_UP_EVENT"
                      ELSE IF BitAnd(present, SERVER_NDB) # 0 THEN "NDB_UP_EVENT"
                      ELSE "SERVER_UP_EVENT"
               [] event_type = "DOWN_EVENT" ->
                      IF BitAnd(prev, SERVER_SLAVE) # 0 THEN "SLAVE_DOWN_EVENT"
                      ELSE IF BitAnd(prev, SERVER_MASTER) # 0 THEN "MASTER_DOWN_EVENT"
                      ELSE IF BitAnd(prev, SERVER_JOINED) # 0 THEN "SYNCED_DOWN_EVENT"
                      ELSE IF BitAnd(prev, SERVER_NDB) # 0 THEN "NDB_DOWN_EVENT"
                      ELSE "SERVER_DOWN_EVENT"
               [] event_type = "LOSS_EVENT" ->
                      IF BitAnd(prev, SERVER_MASTER) # 0 THEN "LOST_MASTER_EVENT"
                      ELSE IF BitAnd(prev, SERVER_SLAVE) # 0 THEN "LOST_SLAVE_EVENT"
                      ELSE IF BitAnd(prev, SERVER_JOINED) # 0 THEN "LOST_SYNCED_EVENT"
                      ELSE "LOST_NDB_EVENT"
               [] event_type = "NEW_EVENT" ->
                      IF BitAnd(present, SERVER_MASTER) # 0 THEN "NEW_MASTER_EVENT"
                      ELSE IF BitAnd(present, SERVER_SLAVE) # 0 THEN "NEW_SLAVE_EVENT"
                      ELSE IF BitAnd(present, SERVER_JOINED) # 0 THEN "NEW_SYNCED_EVENT"
                      ELSE "NEW_NDB_EVENT"
               [] OTHER -> "UNDEFINED_MONITOR_EVENT"

\* mon_get_event_type on a record with mon_prev_status and server->status
mon_get_event_type(mon_prev_status, status) ==
    LET prev == BitAnd(ToUnsigned(mon_prev_status), EventMask)
        present == BitAnd(ToUnsigned(status), EventMask)
        event_type == GeneralEventType(prev, present)
    IN  IF prev = present THEN "UNDEFINED_MONITOR_EVENT"
        ELSE CASE event_type = "UP_EVENT" ->
                      IF BitAnd(present, SERVER_MASTER) # 0 THEN "MASTER_UP_EVENT"
                      ELSE IF BitAnd(present, SERVER_SLAVE) # 0 THEN "SLAVE_UP_EVENT"
                      ELSE IF BitAnd(present, SERVER_JOINED) # 0 THEN "SYNCED_UP_EVENT"
                      ELSE IF BitAnd(present, SERVER_NDB) # 0 THEN "NDB_UP_EVENT"
                      ELSE "SERVER_UP_EVENT"
               [] event_type = "DOWN_EVENT" ->
                      IF BitAnd(prev, SERVER_MASTER) # 0 THEN "MASTER_DOWN_EVENT"
                      ELSE IF BitAnd(prev, SERVER_SLAVE) # 0 THEN "SLAVE_DOWN_EVENT"
                      ELSE IF BitAnd(prev, SERVER_JOINED) # 0 THEN "SYNCED_DOWN_EVENT"
                      ELSE IF BitAnd(prev, SERVER_NDB) # 0 THEN "NDB_DOWN_EVENT"
                      ELSE "SERVER_DOWN_EVENT"
               [] event_type = "LOSS_EVENT" ->
                      IF BitAnd(prev, SERVER_MASTER) # 0 THEN "LOST_MASTER_EVENT"
                      ELSE IF BitAnd(prev, SERVER_SLAVE) # 0 THEN "LOST_SLAVE_EVENT"
                      ELSE IF BitAnd(prev, SERVER_JOINED) # 0 THEN "LOST_SYNCED_EVENT"
                      ELSE "LOST_NDB_EVENT"
               [] event_type = "NEW_EVENT" ->
                      IF BitAnd(present, SERVER_MASTER) # 0 THEN "NEW_MASTER_EVENT"
                      ELSE IF BitAnd(present, SERVER_SLAVE) # 0 THEN "NEW_SLAVE_EVENT"
                      ELSE IF BitAnd(present, SERVER_JOINED) # 0 THEN "NEW_SYNCED_EVENT"
                      ELSE "NEW_NDB_EVENT"
               [] OTHER -> "UNDEFINED_MONITOR_EVENT"

\* a caller classifies the record
mon_get_event_type_call ==
    /\ cls.event = ""
    /\ cls' = [cls EXCEPT !.event = mon_get_event_type(cls.prev, cls.status)]
    /\ UNCHANGED <<lifeVars, cfg, scen>>

(***************************************************************************)
(* SpecClassify: a record with any previous status (-1 while unset) of a   *)
(* server with any status is classified.                                   *)
(***************************************************************************)
InitClassify ==
    /\ heap = [m \in Monitors |-> "unalloc"]
    /\ mon = [m \in Monitors |-> JunkMonitor]
    /\ allMonitors = <<>>
    /\ allocOrder = <<>>
    /\ monLock = NULL
    /\ modRunning = [m \in Monitors |-> FALSE]
    /\ pc = [t \in Threads |-> "idle"]
    /\ tgt = [t \in Threads |-> NULL]
    /\ cur = [t \in Threads |-> <<>>]
    /\ arg = [t \in Threads |-> NULL]
    /\ res = [t \in Threads |-> NULL]
    /\ pre = [t \in Threads |-> ""]
    /\ cfg = CfgIdle
    /\ cls \in [prev : StatusWords \cup {-1}, status : StatusWords, event : {""}]
    /\ ScenIdle

NextClassify == mon_get_event_type_call

SpecClassify == InitClassify /\ [][NextClassify]_vars

(***************************************************************************)
(* mon_append_node_names.  The servers of the list have a name and a port;  *)
(* dest is a buffer of len bytes, the string in it and its terminator.     *)
(***************************************************************************)
ServerName(s) == IF s = 1 THEN "node1" ELSE "node2"
ServerPort(s) == 3306

\* snprintf(arr, sizeof(arr), "%s:%d", server->name, server->port)
NodeName(s) == ServerName(s) \o ":" \o ToString(ServerPort(s))

\* the conversion to size_t, in a word of SizeBits bits
SizeT(x) == x % (2 ^ SizeBits)

\* a concatenation that takes no count: strcat(dest, src)
strcat(dest, src, n) == dest \o src

\* strncat(dest, src, n): at most n characters of src are appended
strncat(dest, src, n) == dest \o SubSeq(src, 1, IF n < Len(src) THEN n ELSE Len(src))

\* status == 0 || servers->server->status & status
NodeSelected(s, status) == status = 0 \/ BitAnd(srv[s], status) # 0

\* the lists of MONITOR_SERVERS a monitor can have, as the servers they name
NodeLists == UNION {[1..n -> Servers] : n \in 0..MaxServers}
\* the status arguments monitor_launch_script passes
NodeFilters == {0, SERVER_RUNNING, SERVER_MASTER, SERVER_SLAVE, SERVER_JOINED}

mon_append_node_names_call(servers, len, status) ==
    /\ nl.pc = "idle"
    /\ nl' = [all |-> servers, servers |-> servers, dest |-> "", separator |-> "", len |-> len,
               status |-> status, mid |-> "", pc |-> "loop"]
    /\ UNCHANGED <<lifeVars, cfg, cls, srv, net, perm, evt, prs>>

\* one test of the while condition and, if it holds, one pass of the body
mon_append_node_names_loop ==
    /\ nl.pc = "loop"
    /\ IF nl.servers # <<>> /\ Len(nl.dest) < SizeT(nl.len - Len(nl.separator))
       THEN IF NodeSelected(Head(nl.servers), nl.status)
            THEN LET withsep == strncat(nl.dest, nl.separator, SizeT(nl.len))
                     room == SizeT(nl.len - Len(withsep) - 1)
                 IN  nl' = [nl EXCEPT !.mid = withsep,
                                      !.dest = strncat(withsep, NodeName(Head(nl.servers)), room),
                                      !.separator = ",",
                                      !.servers = Tail(@)]
            ELSE nl' = [nl EXCEPT !.servers = Tail(@)]
       ELSE nl' = [nl EXCEPT !.pc = "done"]
    /\ UNCHANGED <<lifeVars, cfg, cls, srv, net, perm, evt, prs>>

mon_append_node_names_return ==
    /\ nl.pc = "done"
    /\ nl' = NlIdle
    /\ UNCHANGED <<lifeVars, cfg, cls, srv, net, perm, evt, prs>>

(***************************************************************************)
(* SpecNodeList: node lists are built from every list of up to MaxServers  *)
(* servers, in buffers of 1 to MaxLen bytes, with every status argument.   *)
(***************************************************************************)
InitNodeList ==
    /\ heap = [m \in Monitors |-> "unalloc"]
    /\ mon = [m \in Monitors |-> JunkMonitor]
    /\ allMonitors = <<>>
    /\ allocOrder = <<>>
    /\ monLock = NULL
    /\ modRunning = [m \in Monitors |-> FALSE]
    /\ pc = [t \in Threads |-> "idle"]
    /\ tgt = [t \in Threads |-> NULL]
    /\ cur = [t \in Threads |-> <<>>]
    /\ arg = [t \in Threads |-> NULL]
    /\ res = [t \in Threads |-> NULL]
    /\ pre = [t \in Threads |-> ""]
    /\ cfg = CfgIdle
    /\ cls = ClsIdle
    /\ srv \in [Servers -> {0, SERVER_RUNNING, SERVER_RUNNING + SERVER_MASTER}]
    /\ nl = NlIdle
    /\ net = NetIdle
    /\ perm = PermIdle
    /\ evt = EvtIdle
    /\ prs = PrsIdle

NextNodeList ==
    \/ \E servers \in NodeLists, len \in 1..MaxLen, status \in NodeFilters :
           mon_append_node_names_call(servers, len, status)
    \/ mon_append_node_names_loop
    \/ mon_append_node_names_return

SpecNodeList == InitNodeList /\ [][NextNodeList]_vars

(***************************************************************************)
(* A call of mon_connect_to_db on record i of monitor m.  net keeps the    *)
(* call's inputs and effects and, for every record, the number of calls    *)
(* (up to MaxCalls) and of handshakes in the record's current run of calls *)
(* that all returned MONITOR_CONN_OK and in which no liveness probe failed.*)
(***************************************************************************)
mon_connect_to_db_call(m, i, ping, init, connected, slow) ==
    /\ heap[m] = "live"
    /\ i \in 1..Len(mon[m].databases)
    /\ LET con == mon[m].databases[i].con
           r == mon_connect_to_db(con, ping, init, connected, slow)
           ok == r.rval = "MONITOR_CONN_OK"
           goeson == ok /\ net.calls[i] > 0 /\ ping
       IN  /\ mon' = [mon EXCEPT ![m].databases[i].con = r.con]
           /\ net' = [i |-> i, before |-> con, ping |-> ping, init |-> init,
                      rval |-> r.rval, closed |-> r.closed, handshake |-> r.handshake,
                      calls |-> [net.calls EXCEPT ![i] =
                                    IF goeson THEN (IF @ < MaxCalls THEN @ + 1 ELSE MaxCalls)
                                    ELSE IF ok THEN 1 ELSE 0],
                      handshakes |-> [net.handshakes EXCEPT ![i] =
                                    IF ~ok THEN 0
                                    ELSE (IF goeson THEN @ ELSE 0) + (IF r.handshake THEN 1 ELSE 0)]]
    /\ UNCHANGED <<heap, allMonitors, allocOrder, monLock, modRunning, pc, tgt, cur, arg, res, pre, cfg, cls, srv, nl, perm, evt, prs>>

(***************************************************************************)
(* SpecConnect: a registered monitor gets servers, and connections to them *)
(* are made, probed, lost and made again.                                  *)
(***************************************************************************)
NextConnect ==
    \/ \E t \in Threads, m \in Monitors, server \in Servers : monitorAddServer_call(t, m, server)
    \/ \E t \in Threads : monitorAddServer_lock(t)
    \/ \E t \in Threads : monitorAddServer_append(t)
    \/ \E m \in Monitors, i \in 1..MaxServers, ping, init, connected, slow \in BOOLEAN :
           mon_connect_to_db_call(m, i, ping, init, connected, slow)

SpecConnect == InitPoll /\ [][NextConnect]_vars

(***************************************************************************)
(* check_monitor_permissions.  What happens at one record of the list:     *)
(* mysql_init gives no handle; the connect fails with an access-denied     *)
(* error or with another error; the query fails with an access-denied      *)
(* error or with another error; the query succeeds.                        *)
(***************************************************************************)
AccessDenied == {"authFailure", "queryAccessDenied"}
NodeOutcomes == AccessDenied \cup {"otherConnectFailure", "otherQueryFailure", "querySucceeded"}

\* rval after the body of the loop, for a record where mysql_init gave a handle
check_monitor_permissions_rval(rval, outcome) ==
    CASE outcome = "authFailure" -> rval
      [] outcome = "otherConnectFailure" -> TRUE
      [] outcome = "queryAccessDenied" -> FALSE
      [] outcome = "otherQueryFailure" -> TRUE
      [] outcome = "querySucceeded" -> TRUE

\* the entry: a monitor without servers is refused at once
check_monitor_permissions_call(m) ==
    /\ perm.pc = "idle"
    /\ Usable(m)
    /\ IF mon[m].databases = <<>>
       THEN perm' = [m |-> m, ptr |-> 0, seen |-> <<>>, rval |-> FALSE, pc |-> "done"]
       ELSE perm' = [m |-> m, ptr |-> 1, seen |-> <<>>, rval |-> FALSE, pc |-> "loop"]
    /\ UNCHANGED <<lifeVars, cfg, cls, srv, nl, net, evt, prs>>

\* one record of the list
check_monitor_permissions_node(init, outcome) ==
    /\ perm.pc = "loop"
    /\ perm.ptr <= Len(mon[perm.m].databases)
    /\ IF ~init
       THEN perm' = [perm EXCEPT !.seen = Append(@, "initFailure"), !.pc = "done"]
       ELSE perm' = [perm EXCEPT !.seen = Append(@, outcome),
                                 !.rval = check_monitor_permissions_rval(@, outcome),
                                 !.ptr = @ + 1]
    /\ UNCHANGED <<lifeVars, cfg, cls, srv, nl, net, evt, prs>>

\* mondb is NULL: the loop ends
check_monitor_permissions_end ==
    /\ perm.pc = "loop"
    /\ perm.ptr > Len(mon[perm.m].databases)
    /\ perm' = [perm EXCEPT !.pc = "done"]
    /\ UNCHANGED <<lifeVars, cfg, cls, srv, nl, net, evt, prs>>

check_monitor_permissions_return ==
    /\ perm.pc = "done"
    /\ perm' = PermIdle
    /\ UNCHANGED <<lifeVars, cfg, cls, srv, nl, net, evt, prs>>

(***************************************************************************)
(* SpecPermissions: a registered monitor gets servers and its permissions  *)
(* are checked, with every outcome at every record.                        *)
(***************************************************************************)
NextPermissions ==
    \/ \E t \in Threads, m \in Monitors, server \in Servers : monitorAddServer_call(t, m, server)
    \/ \E t \in Threads : monitorAddServer_lock(t)
    \/ \E t \in Threads : monitorAddServer_append(t)
    \/ \E m \in Monitors : check_monitor_permissions_call(m)
    \/ \E init \in BOOLEAN, outcome \in NodeOutcomes : check_monitor_permissions_node(init, outcome)
    \/ check_monitor_permissions_end
    \/ check_monitor_permissions_return

SpecPermissions == InitPoll /\ [][NextPermissions]_vars

(***************************************************************************)
(* The events of a monitor's records and the scripts launched on them.     *)
(***************************************************************************)
\* monitor_event_definitions[event].name: the names of def_monitor_event.h
EventName(event) ==
    CASE event = "UNDEFINED_MONITOR_EVENT" -> "undefined"
      [] event = "MASTER_DOWN_EVENT" -> "master_down"
      [] event = "MASTER_UP_EVENT" -> "master_up"
      [] event = "SLAVE_DOWN_EVENT" -> "slave_down"
      [] event = "SLAVE_UP_EVENT" -> "slave_up"
      [] event = "SERVER_DOWN_EVENT" -> "server_down"
      [] event = "SERVER_UP_EVENT" -> "server_up"
      [] event = "SYNCED_DOWN_EVENT" -> "synced_down"
      [] event = "SYNCED_UP_EVENT" -> "synced_up"
      [] event = "NDB_DOWN_EVENT" -> "ndb_down"
      [] event = "NDB_UP_EVENT" -> "ndb_up"
      [] event = "LOST_MASTER_EVENT" -> "lost_master"
      [] event = "LOST_SLAVE_EVENT" -> "lost_slave"
      [] event = "LOST_SYNCED_EVENT" -> "lost_synced"
      [] event = "LOST_NDB_EVENT" -> "lost_ndb"
      [] event = "NEW_MASTER_EVENT" -> "new_master"
      [] event = "NEW_SLAVE_EVENT" -> "new_slave"
      [] event = "NEW_SYNCED_EVENT" -> "new_synced"
      [] event = "NEW_NDB_EVENT" -> "new_ndb"

\* a look at the event that also takes the status for seen
mon_get_event_name_commit(db, status) ==
    [db |-> [db EXCEPT !.mon_prev_status = status],
     name |-> EventName(mon_get_event_type(db.mon_prev_status, status))]

\* mon_get_event_name on record db of a server with the status word status:
\* the record as the call leaves it, and the name
mon_get_event_name(db, status) ==
    [db |-> db, name |-> EventName(mon_get_event_type(db.mon_prev_status, status))]

\* a test that compares with the pending status of the record
mon_status_changed_pending(db, status) ==
    db.mon_prev_status # -1 /\ db.mon_prev_status # db.pending_status

\* a test without the sentinel
mon_status_changed_unset(db, status) ==
    db.mon_prev_status # status

mon_status_changed(db, status) ==
    db.mon_prev_status # -1 /\ db.mon_prev_status # status

\* the variables a script can refer to, of those monitor_launch_script
\* substitutes from the record that changed
ScriptVariables == {"$INITIATOR", "$EVENT"}

(***************************************************************************)
(* monitor_launch_script on record db: script is the set of variables the   *)
(* script refers to, valid whether externcmd_allocate accepts the script.   *)
(* The value is the record as the call leaves it and the commands          *)
(* executed: the substituted arguments and the event name of the log       *)
(* message.                                                                *)
(***************************************************************************)
monitor_launch_script(db, status, script, valid) ==
    IF ~valid THEN [db |-> db, launched |-> <<>>]
    ELSE LET subst == mon_get_event_name(db, status)
             db1 == IF "$EVENT" \in script THEN subst.db ELSE db
             logged == mon_get_event_name(db1, status)
         IN  [db |-> logged.db,
              launched |-> <<[initiator |-> IF "$INITIATOR" \in script
                                            THEN NodeName(db.server) ELSE "",
                              event |-> IF "$EVENT" \in script THEN subst.name ELSE "",
                              logged |-> logged.name]>>]

(***************************************************************************)
(* A pass of the module's monitor thread over the records of monitor 1.    *)
(* It first probes every server, keeping the status it had in the record's *)
(* mon_prev_status and storing the new one; it then goes through the       *)
(* records again and, where mon_status_changed, classifies the change and  *)
(* launches the script on an event.                                        *)
(***************************************************************************)
\* the status words a probe stores
ProbedStatus ==
    {0, SERVER_RUNNING, SERVER_RUNNING + SERVER_MASTER, SERVER_RUNNING + SERVER_SLAVE,
     SERVER_RUNNING + SERVER_MASTER + SERVER_SLAVE, SERVER_MASTER, 2 ^ (StatusBits - 1)}

module_pass_begin(script, valid) ==
    /\ evt.pc \in {"idle", "done"}
    /\ heap[1] = "live"
    /\ evt' = [pc |-> "probe", ptr |-> 1, script |-> script, valid |-> valid,
                events |-> <<>>, launched |-> <<>>]
    /\ UNCHANGED <<lifeVars, cfg, cls, srv, nl, net, perm, prs>>

module_pass_probe(status) ==
    /\ evt.pc = "probe"
    /\ IF evt.ptr <= Len(mon[1].databases)
       THEN /\ mon' = [mon EXCEPT ![1].databases[evt.ptr].mon_prev_status =
                                       srv[mon[1].databases[evt.ptr].server]]
            /\ srv' = [srv EXCEPT ![mon[1].databases[evt.ptr].server] = status]
            /\ evt' = [evt EXCEPT !.ptr = @ + 1]
       ELSE /\ evt' = [evt EXCEPT !.pc = "events", !.ptr = 1]
            /\ UNCHANGED <<mon, srv>>
    /\ UNCHANGED <<heap, allMonitors, allocOrder, monLock, modRunning, pc, tgt, cur, arg, res, pre, cfg, cls, nl, net, perm, prs>>

module_pass_event ==
    /\ evt.pc = "events"
    /\ IF evt.ptr <= Len(mon[1].databases)
       THEN LET db == mon[1].databases[evt.ptr]
                status == srv[db.server]
                type == mon_get_event_type(db.mon_prev_status, status)
                r == monitor_launch_script(db, status, evt.script, evt.valid)
            IN  IF mon_status_changed(db, status) /\ type # "UNDEFINED_MONITOR_EVENT"
                THEN /\ mon' = [mon EXCEPT ![1].databases[evt.ptr] = r.db]
                     /\ evt' = [evt EXCEPT !.ptr = @ + 1,
                                           !.events = Append(@, [node |-> evt.ptr, event |-> type]),
                                           !.launched = @ \o r.launched]
                ELSE /\ evt' = [evt EXCEPT !.ptr = @ + 1]
                     /\ UNCHANGED mon
       ELSE /\ evt' = [evt EXCEPT !.pc = "done"]
            /\ UNCHANGED mon
    /\ UNCHANGED <<heap, allMonitors, allocOrder, monLock, modRunning, pc, tgt, cur, arg, res, pre, cfg, cls, srv, nl, net, perm, prs>>

(***************************************************************************)
(* SpecEvents: a registered monitor gets servers, and the module's passes  *)
(* probe them, classify the changes and launch scripts.                    *)
(***************************************************************************)
NextEvents ==
    \/ \E t \in Threads, m \in Monitors, server \in Servers : monitorAddServer_call(t, m, server)
    \/ \E t \in Threads : monitorAddServer_lock(t)
    \/ \E t \in Threads : monitorAddServer_append(t)
    \/ \E script \in SUBSET ScriptVariables, valid \in BOOLEAN : module_pass_begin(script, valid)
    \/ \E status \in ProbedStatus : module_pass_probe(status)
    \/ module_pass_event

SpecEvents == InitPoll /\ [][NextEvents]_vars

(***************************************************************************)
(* mon_parse_event_string.  The string is given as the tokens strtok_r     *)
(* cuts it into at the characters ",| "; prs.tok is the rest of the        *)
(* tokens, its head the token tok points to and <<>> for tok == NULL.      *)
(***************************************************************************)
\* the events in the order of def_monitor_event.h: an event's number is its
\* position, counted from 0
EventOrder ==
    <<"UNDEFINED_MONITOR_EVENT",
      "MASTER_DOWN_EVENT", "MASTER_UP_EVENT", "SLAVE_DOWN_EVENT", "SLAVE_UP_EVENT",
      "SERVER_DOWN_EVENT", "SERVER_UP_EVENT", "SYNCED_DOWN_EVENT", "SYNCED_UP_EVENT",
      "NDB_DOWN_EVENT", "NDB_UP_EVENT", "LOST_MASTER_EVENT", "LOST_SLAVE_EVENT",
      "LOST_SYNCED_EVENT", "LOST_NDB_EVENT", "NEW_MASTER_EVENT", "NEW_SLAVE_EVENT">>

\* the number of the first event whose name is event_name, whatever the
\* case of its letters, or that of UNDEFINED_MONITOR_EVENT
mon_name_to_event(event_name) ==
    LET found == {event \in 0..(Len(EventOrder) - 1) :
                     Lower(EventName(EventOrder[event + 1])) = Lower(event_name)}
    IN  IF found = {}
        THEN 0
        ELSE CHOOSE event \in found : \A other \in found : event <= other

\* lines 947-951: tok after the body of the loop
mon_parse_event_string_next(tok, count) ==
    IF mon_name_to_event(Head(tok)) < count THEN Tail(tok) ELSE tok

EventTokens == {"master_down", "MASTER_UP", "undefined", "bogus"}
EventStrings == UNION {[1..n -> EventTokens] : n \in 0..MaxTokens}

\* lines 926-937
mon_parse_event_string_call(string, count) ==
    /\ prs.pc = "idle"
    /\ prs' = [pc |-> IF string = <<>> THEN "return" ELSE "while",
               tok |-> string, count |-> count, events |-> {},
               rval |-> IF string = <<>> THEN -1 ELSE 0]
    /\ UNCHANGED <<lifeVars, cfg, cls, srv, nl, net, perm, evt>>

\* line 939: while (tok)
mon_parse_event_string_while ==
    /\ prs.pc = "while"
    /\ prs' = [prs EXCEPT !.pc = IF prs.tok = <<>> THEN "return" ELSE "body",
                          !.rval = 0]
    /\ UNCHANGED <<lifeVars, cfg, cls, srv, nl, net, perm, evt>>

\* lines 941-952: the body of the loop
mon_parse_event_string_body ==
    /\ prs.pc = "body"
    /\ LET event == mon_name_to_event(Head(prs.tok))
       IN  IF event = 0
           THEN prs' = [prs EXCEPT !.pc = "return", !.rval = -1]
           ELSE prs' = [prs EXCEPT !.pc = "while",
                                   !.events = IF event < prs.count THEN @ \cup {event} ELSE @,
                                   !.tok = mon_parse_event_string_next(@, prs.count)]
    /\ UNCHANGED <<lifeVars, cfg, cls, srv, nl, net, perm, evt>>

\* the call returns prs.rval
mon_parse_event_string_return ==
    /\ prs.pc = "return"
    /\ prs' = PrsIdle
    /\ UNCHANGED <<lifeVars, cfg, cls, srv, nl, net, perm, evt>>

NextParse ==
    \/ \E string \in EventStrings, count \in 0..MaxCount : mon_parse_event_string_call(string, count)
    \/ mon_parse_event_string_while
    \/ mon_parse_event_string_body
    \/ mon_parse_event_string_return

\* the thread that called mon_parse_event_string keeps running
SpecParse ==
    /\ Init
    /\ [][NextParse]_vars
    /\ WF_vars(mon_parse_event_string_while \/ mon_parse_event_string_body \/ mon_parse_event_string_return)

(***************************************************************************)
(* SpecLocks: the threads and their locks.  A thread may call any routine  *)
(* that takes a lock; once in a call it keeps running, the module's        *)
(* startMonitor and stopMonitor return, and a thread spinning in           *)
(* spinlock_acquire gets the lock if the lock is free again and again.     *)
(* Every step of a call changes pc.                                        *)
(***************************************************************************)
\* the routines a thread calls; monitor_find, monitorStartAll and
\* monitorStopAll begin with the acquisition of monLock.  The name of a new
\* monitor and the server added make no difference to the locks: one of
\* each is used.
Call(t) ==
    \/ /\ Cardinality({m \in Monitors : heap[m] # "unalloc"}) < MaxLive
       /\ \E loaded \in BOOLEAN : monitor_alloc_load(t, "mon", loaded)
    \/ \E m \in Monitors : monitor_free_stop(t, m)
    \/ \E m \in Monitors : monitorStart_call(t, m)
    \/ \E m \in Monitors : monitorStop_call(t, m)
    \/ \E m \in Monitors : monitorAddServer_call(t, m, 1)
    \/ monitorStartAll_lock(t)
    \/ monitorStopAll_lock(t)
    \/ \E name \in Names : monitor_find_lock(t, name)

\* spinlock_acquire inside a call
Acquire(t) ==
    \/ monitor_alloc_lock(t)
    \/ monitor_free_lock(t)
    \/ monitorStart_lock(t)
    \/ monitorStop_lock(t)
    \/ monitorAddServer_lock(t)

\* every other step of a call
Proceed(t) ==
    \/ monitor_alloc_fail(t)
    \/ monitor_alloc_link(t)
    \/ monitor_free_state(t)
    \/ monitor_free_unlink(t)
    \/ monitor_free_mem(t)
    \/ \E handle \in {NULL, ModuleHandle} : monitorStart_module(t, handle)
    \/ monitorStart_unlock(t)
    \/ monitorStartAll_next(t)
    \/ monitorStartAll_unlock(t)
    \/ monitorStop_check(t)
    \/ monitorStop_module(t)
    \/ monitorStop_stopped(t)
    \/ monitorStop_close(t)
    \/ monitorStop_unlock(t)
    \/ monitorStopAll_next(t)
    \/ monitorStopAll_unlock(t)
    \/ monitorAddServer_append(t)
    \/ monitor_find_loop(t)
    \/ monitor_find_unlock(t)

NextLocks == \E t \in Threads : Call(t) \/ Acquire(t) \/ Proceed(t)

SpecLocks ==
    /\ InitPoll
    /\ [][NextLocks]_vars
    /\ \A t \in Threads : WF_pc(Proceed(t)) /\ SF_pc(Acquire(t))

(***************************************************************************)
(*                         The claims                                      *)
(***************************************************************************)
StopPcs == {"stop_check", "stop_module", "stop_stopped", "stop_close", "stop_unlock"}
Cons(m) == [i \in 1..Len(mon[m].databases) |-> mon[m].databases[i].con]
AllClosed(m) == \A i \in 1..Len(mon[m].databases) : mon[m].databases[i].con = NULL
Registered(m) == InList(allMonitors, m)

\* C1: monitorStop on a monitor that is not running is a no-op: the call that
\* finds the state different from running goes straight to the release of the
\* monitor's lock, and between the test and its return it invokes no module
\* stop, writes no field of the monitor and touches no connection handle; the
\* only write of the call is the release of the lock.
C1_StopNoOp ==
    /\ [](\A t \in Threads :
            pc[t] \in {"stop_module", "stop_stopped", "stop_close"}
                => pre[t] = MONITOR_STATE_RUNNING)
    /\ [][\A t \in Threads :
            /\ (pc[t] = "stop_check" /\ pc'[t] # "stop_check"
                    /\ mon[tgt[t]].state # MONITOR_STATE_RUNNING)
                => /\ pc'[t] = "stop_unlock"
                   /\ mon' = mon
                   /\ modRunning' = modRunning
            /\ (pc[t] = "stop_unlock" /\ pc'[t] # "stop_unlock"
                    /\ pre[t] # MONITOR_STATE_RUNNING)
                => /\ mon' = [mon EXCEPT ![tgt[t]].lock = NULL]
                   /\ modRunning' = modRunning]_vars

\* C1 witness: a second monitorStop, on a stopped monitor with a record, is
\* about to return.
C1_Witness ==
    \E t \in Threads :
        /\ pc[t] = "stop_unlock"
        /\ pre[t] = MONITOR_STATE_STOPPED
        /\ mon[tgt[t]].state = MONITOR_STATE_STOPPED
        /\ Len(mon[tgt[t]].databases) > 0

\* C2: monitorStop on a running monitor sets the state to stopping, invokes the
\* module's stop, sets the state to stopped and closes every connection, in
\* this order and holding the monitor's lock; when it returns the state is
\* stopped and every record's connection handle is NULL.
C2_StopPostcondition ==
    \A t \in Threads :
        /\ pc[t] \in StopPcs => mon[tgt[t]].lock = t
        /\ (pc[t] = "stop_module") => mon[tgt[t]].state = MONITOR_STATE_STOPPING
        /\ (pc[t] = "stop_close") => mon[tgt[t]].state = MONITOR_STATE_STOPPED
        /\ (pc[t] = "stop_unlock" /\ pre[t] = MONITOR_STATE_RUNNING)
              => /\ mon[tgt[t]].state = MONITOR_STATE_STOPPED
                 /\ AllClosed(tgt[t])

\* C3: monitorStart invokes the module's start holding the monitor's lock; when
\* it returns, the state is running and the handle stored if the module
\* returned a handle, the state is what it was before the call if it returned
\* none, and the lock is released.
C3_StartPostcondition ==
    /\ [](\A t \in Threads :
            /\ pc[t] \in {"start_module", "start_unlock"} => mon[tgt[t]].lock = t
            /\ (pc[t] = "start_unlock" /\ res[t] # NULL)
                  => /\ mon[tgt[t]].state = MONITOR_STATE_RUNNING
                     /\ mon[tgt[t]].handle = res[t]
            /\ (pc[t] = "start_unlock" /\ res[t] = NULL)
                  => mon[tgt[t]].state = pre[t])
    /\ [][\A t \in Threads :
            (pc[t] = "start_unlock" /\ pc'[t] # "start_unlock")
                => mon'[tgt[t]].lock = NULL]_vars

\* C4: freed is terminal: a monitor whose state is freed never gets another
\* state, and its module is never started.
C4_FreedIsTerminal ==
    [][\A m \in Monitors :
          (heap[m] = "live" /\ heap'[m] = "live" /\ mon[m].state = MONITOR_STATE_FREED)
              => /\ mon'[m].state = MONITOR_STATE_FREED
                 /\ (modRunning'[m] => modRunning[m])]_vars

Without(list, m) == SelectSeq(list, LAMBDA x : x # m)
Unlinked(m) == heap[m] = "freed" \/ \E t \in Threads : pc[t] = "free_mem" /\ tgt[t] = m

\* C5: monitor_free unlinks exactly its monitor, holding the registry lock: the
\* list after the unlink is the list before it without that monitor, the others
\* in their order; and a monitor that has been unlinked is in no list a
\* traversal walks, is no traversal's current monitor and is not what
\* monitor_find returns.
C5_FreeUnlinks ==
    /\ [](\A m \in Monitors :
            Unlinked(m) =>
                /\ ~Registered(m)
                /\ \A t \in Threads :
                      /\ ~InList(cur[t], m)
                      /\ (monLock = t /\ pc[t] # "idle") => tgt[t] # m
                      /\ pc[t] = "find_unlock" => res[t] # m)
    /\ [][\A t \in Threads :
            (pc[t] = "free_unlink" /\ pc'[t] # "free_unlink")
                => /\ monLock = t
                   /\ Registered(tgt[t])
                   /\ allMonitors' = Without(allMonitors, tgt[t])]_vars

\* C5 witness: a monitor has been unlinked from between two others, which are
\* still registered.
C5_Witness ==
    \E t \in Threads :
        /\ pc[t] = "free_mem"
        /\ Len(allMonitors) = 2
        /\ allMonitors[1] > tgt[t]
        /\ allMonitors[2] < tgt[t]

SameName(name) == {m \in Monitors : Registered(m) /\ mon[m].name = name}
Position(seq, m) == CHOOSE i \in 1..Len(seq) : seq[i] = m

\* C7 as claimed: of the registered monitors with the name, monitor_find
\* returns the one that was allocated first.
C7_FindAllocatedFirst ==
    \A t \in Threads :
        (pc[t] = "find_unlock" /\ res[t] # NULL)
            => \A m \in SameName(pre[t]) :
                   Position(allocOrder, res[t]) <= Position(allocOrder, m)

\* C7 amended: of the registered monitors with the name, monitor_find returns
\* the one that was allocated last.
C7_FindAllocatedLast ==
    \A t \in Threads :
        (pc[t] = "find_unlock" /\ SameName(pre[t]) # {})
            => /\ res[t] \in SameName(pre[t])
               /\ \A m \in SameName(pre[t]) :
                      Position(allocOrder, m) <= Position(allocOrder, res[t])

\* C7 witness: monitor_find has looked up a name two registered monitors have.
C7_Witness ==
    \E t \in Threads :
        /\ pc[t] = "find_unlock"
        /\ Cardinality(SameName(pre[t])) = 2
        /\ res[t] # NULL

\* C8: monitor_find scans holding the registry lock and returns the first
\* monitor in list order whose name is exactly the name asked for, NULL if and
\* only if no registered monitor has that name, and never a monitor that
\* monitor_free has unlinked.
C8_FindFirstMatch ==
    \A t \in Threads :
        /\ pc[t] \in {"find_scan", "find_unlock"} => monLock = t
        /\ pc[t] = "find_unlock" =>
              LET hits == {i \in 1..Len(allMonitors) : mon[allMonitors[i]].name = pre[t]}
              IN  /\ (hits = {}) <=> (res[t] = NULL)
                  /\ hits # {} =>
                        /\ res[t] = allMonitors[CHOOSE i \in hits : \A j \in hits : i <= j]
                        /\ heap[res[t]] = "live"
                        /\ ~Unlinked(res[t])

\* C8 witness: monitor_find has passed over a monitor whose name differs from
\* the name asked for only in case, and returned the monitor behind it.
C8_Witness ==
    \E t \in Threads :
        /\ pc[t] = "find_unlock"
        /\ Len(allMonitors) >= 2
        /\ pre[t] = "mon"
        /\ mon[allMonitors[1]].name = "Mon"
        /\ res[t] = allMonitors[2]

\* C9: monitorSetNetworkTimeout with a value that is not positive or a type
\* that is none of the three timeouts returns false and leaves the three
\* timeouts as they were; otherwise it returns true, sets the timeout the type
\* names to the value and leaves the other two as they were.
C9_SetNetworkTimeout ==
    [][\A m \in Monitors :
          (Usable(m) /\ (cfg' # cfg \/ mon'[m] # mon[m])) =>
              LET old == mon[m]
                  new == mon'[m]
                  v == cfg'.value
                  ty == cfg'.type
              IN  IF v <= 0 \/ ty \notin TimeoutTypes
                  THEN /\ cfg'.rval = FALSE
                       /\ new.connect_timeout = old.connect_timeout
                       /\ new.read_timeout = old.read_timeout
                       /\ new.write_timeout = old.write_timeout
                  ELSE /\ cfg'.rval = TRUE
                       /\ new.connect_timeout =
                              IF ty = "MONITOR_CONNECT_TIMEOUT" THEN v ELSE old.connect_timeout
                       /\ new.read_timeout =
                              IF ty = "MONITOR_READ_TIMEOUT" THEN v ELSE old.read_timeout
                       /\ new.write_timeout =
                              IF ty = "MONITOR_WRITE_TIMEOUT" THEN v ELSE old.write_timeout]_vars

\* C9 witness: after the connect timeout was set to 4, a call with value 0 for
\* the connect timeout has failed and the connect timeout is still 4.
C9_Witness ==
    /\ cfg = [type |-> "MONITOR_CONNECT_TIMEOUT", value |-> 0, rval |-> FALSE]
    /\ mon[1].connect_timeout = 4
    /\ mon[1].read_timeout = DEFAULT_READ_TIMEOUT

\* bit k of a status word
Bit(x, k) == (ToUnsigned(x) \div (2 ^ k)) % 2
\* the positions of the running, master, slave, joined and ndb bits
WatchedBits == 0..4
SameWatched(a, b) == \A k \in WatchedBits : Bit(a, k) = Bit(b, k)

\* C10: for every previous and current status, mon_get_event_type returns one
\* of the monitor events, and the undefined event ("no event") whenever the two
\* statuses agree on the running, master, slave, joined and ndb bits, whatever
\* the other bits are.
C10_ClassifyTotal ==
    cls.event # "" =>
        /\ cls.event \in MonitorEvents
        /\ SameWatched(cls.prev, cls.status) => cls.event = "UNDEFINED_MONITOR_EVENT"

\* C10 witness: two statuses that differ, but in no watched bit, have been
\* classified as no event.
C10_Witness ==
    /\ cls.event = "UNDEFINED_MONITOR_EVENT"
    /\ cls.prev = 35
    /\ cls.status = 3

\* the running bit, and the role bits in the order master, slave, joined, ndb
IsRunning(x) == Bit(x, 0) = 1
RoleBits == 1..4
HasRole(x) == \E k \in RoleBits : Bit(x, k) = 1
\* the role of the highest priority in a status word, 0 if it has no role
TopRole(x) == IF HasRole(x) THEN CHOOSE k \in RoleBits : Bit(x, k) = 1 /\ \A j \in RoleBits : Bit(x, j) = 1 => k <= j
              ELSE 0
UpEventOf(k) == <<"SERVER_UP_EVENT", "MASTER_UP_EVENT", "SLAVE_UP_EVENT", "SYNCED_UP_EVENT", "NDB_UP_EVENT">>[k + 1]
DownEventOf(k) == <<"SERVER_DOWN_EVENT", "MASTER_DOWN_EVENT", "SLAVE_DOWN_EVENT", "SYNCED_DOWN_EVENT", "NDB_DOWN_EVENT">>[k + 1]
LostEventOf(k) == <<"LOST_MASTER_EVENT", "LOST_SLAVE_EVENT", "LOST_SYNCED_EVENT", "LOST_NDB_EVENT">>[k]
NewEventOf(k) == <<"NEW_MASTER_EVENT", "NEW_SLAVE_EVENT", "NEW_SYNCED_EVENT", "NEW_NDB_EVENT">>[k]

\* C11: a change from not running to running is classified as the up event of
\* the highest role of the current status, a change from running to not running
\* as the down event of the highest role of the previous status, the roles in
\* the priority master, slave, joined, ndb, and as the server up or server down
\* event when that status has no role.
C11_UpDownByPriority ==
    cls.event # "" =>
        /\ (~IsRunning(cls.prev) /\ IsRunning(cls.status))
              => cls.event = UpEventOf(TopRole(cls.status))
        /\ (IsRunning(cls.prev) /\ ~IsRunning(cls.status))
              => cls.event = DownEventOf(TopRole(cls.prev))

\* C11 witness: a server that was down and is now running with the master and
\* the slave bit has been classified as master up.
C11_Witness ==
    /\ cls.prev = 0
    /\ cls.status = SERVER_RUNNING + SERVER_MASTER + SERVER_SLAVE
    /\ cls.event = "MASTER_UP_EVENT"

\* C12: a change between two running statuses that differ in a watched bit is
\* classified as the loss event of the highest role of the previous status if
\* the previous status has a role, whatever role the current status has, and as
\* the new event of the highest role of the current status if it has none.
C12_LossNewByPrevious ==
    (cls.event # "" /\ IsRunning(cls.prev) /\ IsRunning(cls.status)) =>
        IF SameWatched(cls.prev, cls.status) THEN cls.event = "UNDEFINED_MONITOR_EVENT"
        ELSE IF HasRole(cls.prev) THEN cls.event = LostEventOf(TopRole(cls.prev))
        ELSE cls.event = NewEventOf(TopRole(cls.status))

\* C12 witness: a running master that is now a running slave has been
\* classified as lost master.
C12_Witness ==
    /\ cls.prev = SERVER_RUNNING + SERVER_MASTER
    /\ cls.status = SERVER_RUNNING + SERVER_SLAVE
    /\ cls.event = "LOST_MASTER_EVENT"

\* C13: a server that is not running in the previous and in the current status
\* is classified as no event, whatever the role bits of the two are.
C13_StillDownNoEvent ==
    (cls.event # "" /\ ~IsRunning(cls.prev) /\ ~IsRunning(cls.status))
        => cls.event = "UNDEFINED_MONITOR_EVENT"

\* C13 witness: a down server whose role bits changed from master to slave has
\* been classified as no event.
C13_Witness ==
    /\ cls.prev = SERVER_MASTER
    /\ cls.status = SERVER_SLAVE
    /\ cls.event = "UNDEFINED_MONITOR_EVENT"

\* the servers of a list that the status argument selects
RECURSIVE SelectedOf(_, _)
SelectedOf(servers, status) ==
    IF servers = <<>> THEN <<>>
    ELSE IF NodeSelected(Head(servers), status)
         THEN <<Head(servers)>> \o SelectedOf(Tail(servers), status)
         ELSE SelectedOf(Tail(servers), status)

\* the name:port tokens of the servers, joined by commas
RECURSIVE JoinNames(_)
JoinNames(servers) ==
    IF servers = <<>> THEN ""
    ELSE IF Len(servers) = 1 THEN NodeName(Head(servers))
    ELSE NodeName(Head(servers)) \o "," \o JoinNames(Tail(servers))

\* C16: the string mon_append_node_names builds is the comma-joined sequence of
\* the complete name:port tokens of the first selected servers: it never ends
\* in a part of a token or in a separator; with a buffer of 10 bytes and the
\* servers node1:3306 and node2:3306 it is "node1:3306".
C16_WholeTokens ==
    nl.pc = "done" =>
        LET sel == SelectedOf(nl.all, nl.status)
        IN  /\ \E k \in 0..Len(sel) : nl.dest = JoinNames(SubSeq(sel, 1, k))
            /\ (nl.len = 10 /\ sel = <<1, 2>>) => nl.dest = "node1:3306"

\* C17: mon_append_node_names never writes past the buffer: after the
\* separator is appended and after the token is appended, the string and its
\* terminator take at most len bytes.
C17_NoOverflow ==
    nl.pc # "idle" =>
        /\ Len(nl.mid) + 1 <= nl.len
        /\ Len(nl.dest) + 1 <= nl.len

\* C17 witness: the separator was appended into the last free byte of the
\* buffer and no character of the second token after it.
C17_Witness ==
    /\ nl.pc = "done"
    /\ nl.len = 12
    /\ nl.mid = "node1:3306,"
    /\ nl.dest = "node1:3306,"

\* the connection handle of the record the last mon_connect_to_db call was for
NetCon == mon[1].databases[net.i].con

\* C18: a mon_connect_to_db call on a record whose handle is connected and
\* whose liveness probe succeeds returns MONITOR_CONN_OK, closes nothing,
\* makes no handshake and leaves the handle; so successive calls on a record
\* that all succeed, with no probe failing between them, make one handshake
\* in all.
C18_LivenessShortCircuit ==
    /\ (net.i # 0 /\ net.before = ConnOpen /\ net.ping)
          => /\ net.rval = "MONITOR_CONN_OK"
             /\ ~net.closed
             /\ ~net.handshake
             /\ NetCon = net.before
    /\ \A i \in 1..Len(mon[1].databases) :
          net.calls[i] >= 1 => (net.handshakes[i] = 1 /\ mon[1].databases[i].con = ConnOpen)

\* C18 witness: the second of two successive successful calls on a record has
\* returned, and one handshake was made.
C18_Witness ==
    /\ net.i = 1
    /\ net.calls[1] = 2
    /\ net.handshakes[1] = 1
    /\ ~net.handshake
    /\ net.before = ConnOpen

\* C19 as claimed: after a call that returned a failure the record's handle is
\* NULL, and after a call that returned MONITOR_CONN_OK it is a connection.
C19_FailureLeavesNull ==
    net.i # 0 =>
        IF net.rval = "MONITOR_CONN_OK" THEN NetCon = ConnOpen ELSE NetCon = NULL

\* C19 amended: after a call that returned a failure the record's handle is
\* NULL only if mysql_init gave no handle; otherwise it is the handle of the
\* failed attempt, which is not connected and never passes the liveness probe,
\* so that the next call closes it and makes a fresh attempt.  After a call
\* that returned MONITOR_CONN_OK the handle is a connection.
C19_FailureLeavesHandle ==
    net.i # 0 =>
        /\ IF net.rval = "MONITOR_CONN_OK" THEN NetCon = ConnOpen
           ELSE NetCon = IF net.init THEN ConnDead ELSE NULL
        /\ net.before = ConnDead => (net.closed /\ (net.init => net.handshake))

\* C19 witness: a call on a record that held the handle of a failed attempt
\* has closed that handle, made a new attempt and timed out.
C19_Witness ==
    /\ net.before = ConnDead
    /\ net.rval = "MONITOR_CONN_TIMEOUT"
    /\ net.closed
    /\ NetCon = ConnDead

\* C20: check_monitor_permissions that has gone through the records of the
\* list returns true if and only if the outcome at some record is neither an
\* access-denied connect failure nor an access-denied query failure: an
\* access-denied outcome, before or after the others, leaves the result as it is.
C20_LenientMonotone ==
    (perm.pc = "done" /\ \A k \in 1..Len(perm.seen) : perm.seen[k] # "initFailure")
        => (perm.rval <=> \E k \in 1..Len(perm.seen) : perm.seen[k] \notin AccessDenied)

\* a pass over the two records A, B of monitor 1, of different servers, is
\* complete, in which A's server went from running master to not running and
\* B's server from not running to running slave
C14_Scenario ==
    /\ evt.pc = "done"
    /\ Len(mon[1].databases) = 2
    /\ LET A == mon[1].databases[1]
           B == mon[1].databases[2]
       IN  /\ A.server # B.server
           /\ A.mon_prev_status # -1 /\ B.mon_prev_status # -1
           /\ IsRunning(A.mon_prev_status) /\ Bit(A.mon_prev_status, 1) = 1
           /\ ~IsRunning(srv[A.server])
           /\ ~IsRunning(B.mon_prev_status)
           /\ IsRunning(srv[B.server])
           /\ Bit(srv[B.server], 1) = 0 /\ Bit(srv[B.server], 2) = 1

\* the pass classified A's change as master down and then B's as eventB, and
\* a valid script that refers to $EVENT and $INITIATOR was launched once for
\* A and then once for B, with the names of these events and the name:port of
\* the servers
C14_Produces(eventB) ==
    /\ evt.events = <<[node |-> 1, event |-> "MASTER_DOWN_EVENT"], [node |-> 2, event |-> eventB]>>
    /\ (evt.valid /\ evt.script = ScriptVariables) =>
          /\ Len(evt.launched) = 2
          /\ evt.launched[1].initiator = NodeName(mon[1].databases[1].server)
          /\ evt.launched[1].event = "master_down"
          /\ evt.launched[2].initiator = NodeName(mon[1].databases[2].server)
          /\ evt.launched[2].event = EventName(eventB)

\* C14 as claimed: in that pass the events are master down for A and then new
\* slave for B, and the script is launched once for each with these events.
C14_MasterDownNewSlave == C14_Scenario => C14_Produces("NEW_SLAVE_EVENT")

\* C14 amended: in that pass the events are master down for A and then slave
\* up for B, and the script is launched once for each with these events.
C14_MasterDownSlaveUp == C14_Scenario => C14_Produces("SLAVE_UP_EVENT")

\* C14 witness: such a pass is complete, with a valid script that refers to
\* both variables.
C14_Witness ==
    /\ C14_Scenario
    /\ evt.valid
    /\ evt.script = ScriptVariables
    /\ Len(evt.launched) = 2

\* C15: the classification of a record changes neither the record nor the
\* status word of its server, and it gives the same event every time it is
\* made on the unchanged record: the event name the script gets and the one
\* the log message gets, from two calls, are the name of the event the pass
\* found.
C15_ClassifyStateless ==
    /\ [](evt.valid =>
            /\ Len(evt.launched) = Len(evt.events)
            /\ \A k \in 1..Len(evt.launched) :
                  /\ evt.launched[k].logged = EventName(evt.events[k].event)
                  /\ "$EVENT" \in evt.script => evt.launched[k].event = evt.launched[k].logged)
    /\ [][(evt.pc = "events" /\ evt' # evt) => (mon' = mon /\ srv' = srv)]_vars

\* C15 witness: a script got the event name lost_master from the first
\* classification and the log message the same name from the second.
C15_Witness ==
    /\ evt.launched # <<>>
    /\ evt.launched[1].event = "lost_master"
    /\ evt.launched[1].logged = "lost_master"

(***************************************************************************)
(* C21: no thread holds the registry lock monLock while it acquires a      *)
(* monitor's instance lock or while the module's startMonitor or           *)
(* stopMonitor executes.                                                   *)
(***************************************************************************)
C21_RegistryLockNotHeldAcross ==
    \A t \in Threads :
        pc[t] \in {"start_lock", "start_module", "stop_lock", "stop_module"} => monLock # t

(***************************************************************************)
(* C22: every write to a field of a monitor (state, handle, credentials,   *)
(* timeouts, interval, parameters, server list) is made by a thread that   *)
(* holds the monitor's instance lock.  The initialisation in monitor_alloc *)
(* and the release of the memory in monitor_free are not writes to a       *)
(* monitor other threads can see.                                          *)
(***************************************************************************)
C22_WritesUnderInstanceLock ==
    [][LET Fields(x) == [x EXCEPT !.lock = NULL]
       IN  \A m \in Monitors :
               (heap[m] = "live" /\ heap'[m] = "live" /\ Fields(mon'[m]) # Fields(mon[m]))
                   => \E t \in Threads : mon[m].lock = t /\ pc'[t] # pc[t]]_vars

C24_ServerListIsSet ==
    \A m \in Monitors :
        heap[m] = "live" =>
            \A i, j \in 1..Len(mon[m].databases) :
                i # j => mon[m].databases[i].server # mon[m].databases[j].server

(***************************************************************************)
(* C25: monitorStartAll attempts monitorStart once on every monitor of the *)
(* registry, in the order of the list, whether or not a start fails, and   *)
(* monitorStopAll does the same with monitorStop.  The traversal holds     *)
(* monLock, so the list does not change under it; its pointer is always a  *)
(* suffix of the list, the monitor being started or stopped is the head of *)
(* that suffix, and the pointer moves on by exactly one monitor when the   *)
(* call returns, whatever the module's start returned.                     *)
(***************************************************************************)
C25_TraversalVisitsEach ==
    /\ [](\A t \in Threads :
            (monLock = t /\ pc[t] \notin {"alloc_link", "free_unlink", "find_scan", "find_unlock"}) =>
                /\ \E k \in 0..Len(allMonitors) : cur[t] = SubSeq(allMonitors, k + 1, Len(allMonitors))
                /\ pc[t] \in {"startall_loop", "stopall_loop"}
                   \/ (cur[t] # <<>> /\ tgt[t] = Head(cur[t])))
    /\ [][\A t \in Threads :
            /\ (monLock = t /\ monLock' = t /\ pc[t] \notin {"alloc_link", "free_unlink"})
                   => allMonitors' = allMonitors
            /\ (pc[t] = "idle" /\ pc'[t] \in {"startall_loop", "stopall_loop"})
                   => cur'[t] = allMonitors
            /\ (pc[t] = "startall_loop" /\ pc'[t] # pc[t])
                   => IF cur[t] # <<>> THEN pc'[t] = "start_lock" /\ tgt'[t] = Head(cur[t])
                                       ELSE pc'[t] = "idle" /\ monLock' = NULL
            /\ (pc[t] = "stopall_loop" /\ pc'[t] # pc[t])
                   => IF cur[t] # <<>> THEN pc'[t] = "stop_lock" /\ tgt'[t] = Head(cur[t])
                                       ELSE pc'[t] = "idle" /\ monLock' = NULL
            /\ (monLock = t /\ pc[t] = "start_lock" /\ pc'[t] # pc[t]) => pc'[t] = "start_module"
            /\ (monLock = t /\ pc[t] = "start_module" /\ pc'[t] # pc[t]) => pc'[t] = "start_unlock"
            /\ (monLock = t /\ pc[t] = "start_unlock" /\ pc'[t] # pc[t])
                   => pc'[t] = "startall_loop" /\ cur'[t] = Tail(cur[t])
            /\ (monLock = t /\ pc[t] = "stop_unlock" /\ pc'[t] # pc[t])
                   => pc'[t] = "stopall_loop" /\ cur'[t] = Tail(cur[t])]_vars

\* monitorStartAll is starting the second monitor of the list after the
\* module's start of the first one returned no handle
C25_Witness ==
    \E t \in Threads :
        /\ monLock = t /\ pc[t] = "start_module"
        /\ Len(allMonitors) = 2 /\ tgt[t] = allMonitors[2]
        /\ mon[allMonitors[1]].state = MONITOR_STATE_ALLOC
        /\ mon[allMonitors[1]].handle = NULL

(***************************************************************************)
(* C26: mon_parse_event_string terminates: every call reaches its return,  *)
(* whatever the string and the size count of the array.                    *)
(***************************************************************************)
C26_ParseTerminates == (prs.pc \in {"while", "body"}) ~> (prs.pc = "return")

(***************************************************************************)
(* C27: a monitor whose state is MONITOR_STATE_RUNNING holds a handle of   *)
(* its module that is not NULL.                                            *)
(***************************************************************************)
C27_RunningHasHandle ==
    \A m \in Monitors :
        (heap[m] = "live" /\ mon[m].state = MONITOR_STATE_RUNNING) => mon[m].handle # NULL

(***************************************************************************)
(* C28: the module's stopMonitor is invoked only on a monitor that is      *)
(* running, and at most once per successful start: the monitor_free or     *)
(* monitorStop that invokes it finds the monitor started and not yet       *)
(* stopped, in state MONITOR_STATE_RUNNING (which monitorStop has just     *)
(* replaced by MONITOR_STATE_STOPPING).                                    *)
(***************************************************************************)
C28_ModuleStopOncePerRun ==
    [][\A t \in Threads :
          /\ (pc[t] = "idle" /\ pc'[t] = "free_state")
                 => (mon[tgt'[t]].state = MONITOR_STATE_RUNNING /\ modRunning[tgt'[t]])
          /\ (pc[t] = "stop_module" /\ pc'[t] = "stop_stopped")
                 => (pre[t] = MONITOR_STATE_RUNNING /\ modRunning[tgt[t]])]_vars

C30_StatusChangedSentinel ==
    /\ [](\A i \in 1..Len(mon[1].databases) :
            LET db == mon[1].databases[i]
                status == srv[db.server]
            IN  /\ db.mon_prev_status = -1
                       => \A s \in StatusWords : ~mon_status_changed(db, s)
                /\ db.mon_prev_status # -1
                       => /\ mon_status_changed(db, status) <=> db.mon_prev_status # status
                          /\ mon_get_event_type(db.mon_prev_status, status) # "UNDEFINED_MONITOR_EVENT"
                                 => mon_status_changed(db, status))
    /\ [][(/\ evt.pc = "events"
           /\ evt.ptr <= Len(mon[1].databases)
           /\ mon[1].databases[evt.ptr].mon_prev_status = -1
           /\ evt' # evt)
              => (evt'.events = evt.events /\ evt'.launched = evt.launched /\ mon' = mon)]_vars

\* the pass has reported the change of the first record and is at a second
\* record, added after the probes, whose server is running
C30_Witness ==
    /\ evt.pc = "events" /\ evt.ptr = 2
    /\ Len(mon[1].databases) = 2
    /\ mon[1].databases[2].mon_prev_status = -1
    /\ srv[mon[1].databases[2].server] = SERVER_RUNNING
    /\ mon[1].databases[1].mon_prev_status # -1
    /\ Len(evt.events) = 1

====
